---- MODULE Spec2Model ----
(***************************************************************************)
(* AutoCut v2.0 (src/src/app.ts): the timeline model, the edit operations, *)
(* the playback loop with its audio scheduling, and the export pipeline.   *)
(*                                                                         *)
(* Times are whole numbers of time units (the code keeps microseconds in   *)
(* JavaScript numbers).  Object identity (MP4Clip, OffscreenSprite) is a   *)
(* natural number; a newly constructed object gets a number no live        *)
(* reference holds, and an object built together with the record that owns *)
(* it (a material and its clip, a sprite state and its OffscreenSprite)    *)
(* takes the number of that record's id.  The objects exportVideo builds   *)
(* are numbered below zero.  One action is one run of JavaScript between   *)
(* two suspension points: an event handler up to its first pending await,  *)
(* or the continuation of an await up to the next one.                     *)
(***************************************************************************)
EXTENDS Integers, Sequences, FiniteSets, Bags, TLC

\* ------------------------------------------------------------------ bounds
MaxSprites == 2
MaxInflight == 2
MaxAudioTime == 3
MaxChunks == 2
\* the highest number a pushed history action gets
MaxPushes == 52

Null == 0

\* the inputs the model draws: the files the user has, each known by its
\* duration and loaded once in a project; the time between two animation
\* frames; the durations of the audio buffers a decode returns
MaterialDurations == {3}
FrameDeltas == {0, 1, 2}
BufferDurations == {0, 1, 2}

VARIABLES
    materials,          \* state.materials
    sprites,            \* state.sprites
    selectedSpriteId,   \* state.selectedSpriteId
    currentTime,        \* state.currentTime
    isPlaying,          \* state.isPlaying
    animationFrameId,   \* state.animationFrameId
    rafQueue,           \* callbacks requestAnimationFrame holds, by id
    renders,            \* renderFrame calls suspended at clip.tick (a bag)
    canvas,             \* whose frame the preview canvas shows
    audioContext,       \* state.audioContext: FALSE is null
    audioClock,         \* audioContext.currentTime
    nextAudioTime,      \* state.nextAudioTime
    audioSchedule,      \* buffers handed to source.start, in call order
    placeholder,        \* #canvasPlaceholder has class active
    signal,             \* what the last handler told the user
    export,             \* the exportVideo call in progress
    undoStack,          \* HistoryManager.undoStack, oldest action first
    redoStack           \* HistoryManager.redoStack

vars == <<materials, sprites, selectedSpriteId, currentTime, isPlaying,
          animationFrameId, rafQueue, renders, canvas, audioContext,
          audioClock, nextAudioTime, audioSchedule, placeholder, signal,
          export, undoStack, redoStack>>

timelineVars == <<materials, sprites, selectedSpriteId>>
playVars == <<isPlaying, animationFrameId, rafQueue>>
audioVars == <<audioContext, audioClock, nextAudioTime, audioSchedule>>
historyVars == <<undoStack, redoStack>>

\* ----------------------------------------------------------------- helpers
Max(a, b) == IF a >= b THEN a ELSE b
Min(a, b) == IF a <= b THEN a ELSE b

Range(s) == {s[i] : i \in DOMAIN s}

RemoveAt(s, i) == [j \in 1..(Len(s) - 1) |-> IF j < i THEN s[j] ELSE s[j + 1]]

Smallest(S) == CHOOSE x \in S : \A y \in S : x <= y

\* filters as created by addMaterialToTimeline; brightness and contrast in
\* tenths (10 is 1.0)
DefaultFilters ==
    [grayscale |-> FALSE, sepia |-> FALSE, brightness |-> 10,
     contrast |-> 10, blur |-> 0]

\* opacity in percent (100 is 1.0)
FullOpacity == 100

\* no exportVideo call yet.  pc: where the call is suspended (clone, add,
\* read) or how it ended (done, failed); i: the loop index, from 1; cur: the
\* spriteState the loop holds across clip.clone(); pending: the export
\* sprite handed to
\* addSprite; registered: the sprites the Combinator took, in order;
\* progress: the last value given to updateExportProgress, as a fraction
NoSprite == [obj |-> Null, clip |-> Null]

IdleExport ==
    [pc |-> "idle", i |-> 0, cur |-> NoSprite, pending |-> NoSprite,
     registered |-> <<>>, progress |-> [num |-> 0, den |-> 1], chunks |-> 0,
     artifact |-> FALSE]

\* the canvas after fillRect: no frame
BlankCanvas == [kind |-> "blank", by |-> "none", stale |-> FALSE]

\* The sprite ids and OffscreenSprite objects some reference still reaches,
\* and the material ids and MP4Clip objects: neither generateId() nor new
\* returns one of them.  The code never compares one kind with the other.
UsedSprites ==
    {sprites[i].id : i \in DOMAIN sprites}
        \cup {sprites[i].sprite.obj : i \in DOMAIN sprites}
        \cup {selectedSpriteId}
        \cup (IF export.cur # NoSprite THEN {export.cur.id} ELSE {})

UsedClips ==
    {materials[i].id : i \in DOMAIN materials}
        \cup {materials[i].clip : i \in DOMAIN materials}
        \cup {sprites[i].materialId : i \in DOMAIN sprites}
        \cup {sprites[i].clip : i \in DOMAIN sprites}
        \cup {export.cur.clip}

\* the OffscreenSprite objects and the MP4Clip clones the running export holds
UsedExportSprites ==
    {export.registered[i].obj : i \in DOMAIN export.registered}
        \cup {export.pending.obj}

UsedExportClips ==
    {export.registered[i].clip : i \in DOMAIN export.registered}
        \cup {export.pending.clip}

generateId(used) == Smallest((1..(Cardinality(used) + 1)) \ used)

\* new, in exportVideo: an object none of the existing ones
NewObject(used) == 0 - Smallest((1..(Cardinality(used) + 1)) \ {0 - x : x \in used})

getTotalDuration(sp) ==
    IF Len(sp) = 0 THEN 0 ELSE sp[Len(sp)].startTime + sp[Len(sp)].duration

\* a lookup whose interval test takes the end of a sprite as inside it
FindActiveInclusive(sp, time) ==
    LET hits == {i \in DOMAIN sp :
                    time >= sp[i].startTime
                    /\ time <= sp[i].startTime + sp[i].duration}
    IN IF hits = {} THEN 0 ELSE Smallest(hits)

\* Array.prototype.find with the interval test of renderFrame and
\* playbackLoop: the index of the first sprite whose interval holds time, or 0
FindActive(sp, time) ==
    LET hits == {i \in DOMAIN sp :
                    time >= sp[i].startTime
                    /\ time < sp[i].startTime + sp[i].duration}
    IN IF hits = {} THEN 0 ELSE Smallest(hits)

\* Array.prototype.findIndex(s => s.id === id): 0 stands for -1
FindIndex(sp, id) ==
    LET hits == {i \in DOMAIN sp : sp[i].id = id}
    IN IF hits = {} THEN 0 ELSE Smallest(hits)

FindMaterial(ms, id) ==
    LET hits == {i \in DOMAIN ms : ms[i].id = id}
    IN IF hits = {} THEN 0 ELSE Smallest(hits)

\* the window of audioSchedule the model keeps: the last two buffers
LastTwo(s) == IF Len(s) <= 2 THEN s ELSE SubSeq(s, Len(s) - 1, Len(s))

\* a source time that moves through the source at the speed of the timeline
\* whatever the sprite's rate
SourceTimeUnscaled(s, time) ==
    s.sprite.time.offset + (time - s.startTime)

\* ------------------------------------------------------------ renderFrame
\* renderFrame(time) up to its await of clip.tick: with no active sprite the
\* canvas is cleared and the call is over; otherwise the call is suspended,
\* holding the sprite it found and the source time it asked for.
SourceTime(s, time) ==
    s.sprite.time.offset + ((time - s.startTime) * s.playbackRate)

\* a suspended call: who made it (playbackLoop: "tick", anyone else: "call")
\* and, kept for the calls of playbackLoop, the source time it gave clip.tick
NoTime == 0 - 1

RenderRecord(kind, sourceTime) ==
    [kind |-> kind, stale |-> FALSE,
     at |-> IF kind = "tick" THEN sourceTime ELSE NoTime]

renderFrame(sp, time, kind, rs, cv) ==
    LET idx == FindActive(sp, time)
    IN IF idx = 0
       THEN [renders |-> rs, canvas |-> BlankCanvas, suspended |-> FALSE]
       ELSE [renders |-> rs (+) SetToBag({RenderRecord(kind,
                                              SourceTime(sp[idx], time))}),
             canvas |-> cv, suspended |-> TRUE]

\* ------------------------------------------------------------------ pause
\* pause(): cancelAnimationFrame on the id kept in state.animationFrameId
PauseQueue(rq, afid) == IF afid # Null THEN rq \ {afid} ELSE rq

\* pause(): the audio cursor goes back to the audio clock
PauseAudioTime == IF audioContext THEN audioClock ELSE nextAudioTime

\* the tick renders a pause finds in flight are marked (the code keeps no
\* such mark: it is what a discard would have to test)
Stale(r) == IF r.kind = "tick" THEN [r EXCEPT !.stale = TRUE] ELSE r

MarkStale(rs) ==
    LET marked == {Stale(r) : r \in BagToSet(rs)}
        fresh(t) == [t EXCEPT !.stale = FALSE]
    IN [t \in marked |->
          CopiesIn(t, rs) + (IF fresh(t) # t THEN CopiesIn(fresh(t), rs) ELSE 0)]

\* a sprite whose source offset is its position on the timeline
NewSpriteOffsetAtPosition(m, startPosition, used) ==
    [id |-> generateId(used),
     materialId |-> m.id,
     clip |-> m.clip,
     sprite |-> [obj |-> generateId(used),
                 time |-> [offset |-> startPosition, duration |-> m.duration,
                           playbackRate |-> 1],
                 opacity |-> FullOpacity],
     startTime |-> startPosition,
     duration |-> m.duration,
     filters |-> DefaultFilters,
     playbackRate |-> 1,
     opacity |-> FullOpacity]

\* ------------------------------------------------- addMaterialToTimeline
NewSprite(m, startPosition, used) ==
    [id |-> generateId(used),
     materialId |-> m.id,
     clip |-> m.clip,
     sprite |-> [obj |-> generateId(used),
                 time |-> [offset |-> 0, duration |-> m.duration,
                           playbackRate |-> 1],
                 opacity |-> FullOpacity],
     startTime |-> startPosition,
     duration |-> m.duration,
     filters |-> DefaultFilters,
     playbackRate |-> 1,
     opacity |-> FullOpacity]

\* an append that puts every sprite at the start of the timeline
StartPositionAtZero(sp) == 0

\* startPosition: the end of the last sprite
StartPosition(sp) ==
    IF Len(sp) > 0 THEN sp[Len(sp)].startTime + sp[Len(sp)].duration ELSE 0

\* the body of addMaterialToTimeline(m): push, then for the first sprite
\* hide the placeholder and call renderFrame(0)
AppendEffects(m, used) ==
    LET sp == Append(sprites, NewSprite(m, StartPosition(sprites), used))
        rc == IF Len(sp) = 1
              THEN renderFrame(sp, 0, "call", renders, canvas)
              ELSE [renders |-> renders, canvas |-> canvas, suspended |-> FALSE]
    IN /\ Len(sprites) < MaxSprites
       /\ BagCardinality(rc.renders) <= MaxInflight
       /\ sprites' = sp
       /\ placeholder' = IF Len(sp) = 1 THEN FALSE ELSE placeholder
       /\ renders' = rc.renders
       /\ canvas' = rc.canvas

\* loadVideoFile(file) from the moment clip.ready settles
LoadVideoFile(d, ok) ==
    /\ \A i \in DOMAIN materials : materials[i].duration # d
    /\ IF ~ok
       THEN /\ signal' = "LoadFailed"
            /\ UNCHANGED <<materials, sprites, placeholder, renders, canvas>>
       ELSE LET id == generateId(UsedClips)
                m == [id |-> id, duration |-> d, clip |-> id]
            IN /\ materials' = Append(materials, m)
               /\ signal' = "none"
               /\ IF Len(sprites) = 0
                  THEN AppendEffects(m, UsedSprites)
                  ELSE UNCHANGED <<sprites, placeholder, renders, canvas>>
    /\ UNCHANGED <<historyVars, selectedSpriteId, currentTime, playVars,
                   audioVars, export>>

\* a click on a material of the list
AddMaterialToTimeline(k) ==
    /\ k \in DOMAIN materials
    /\ AppendEffects(materials[k], UsedSprites)
    /\ signal' = "none"
    /\ UNCHANGED <<historyVars, materials, selectedSpriteId, currentTime, playVars,
                   audioVars, export>>

\* a click on a clip of the timeline
selectSprite(k) ==
    /\ k \in DOMAIN sprites
    /\ selectedSpriteId' = sprites[k].id
    /\ signal' = "none"
    /\ UNCHANGED <<historyVars, materials, sprites, currentTime, playVars, renders, canvas,
                   audioVars, placeholder, export>>

\* a click on the track at the position of time t
handleTimelineClick(t) ==
    LET time == Max(0, Min(t, getTotalDuration(sprites)))
        rc == renderFrame(sprites, time, "call", renders, canvas)
    IN /\ BagCardinality(rc.renders) <= MaxInflight
       /\ currentTime' = time
       /\ renders' = rc.renders
       /\ canvas' = rc.canvas
       /\ signal' = "none"
       /\ UNCHANGED <<historyVars, timelineVars, playVars, audioVars, placeholder, export>>

\* a first part that goes on with the OffscreenSprite of the sprite it was
\* cut from, shortened
SplitFirstKeepsHandle(s, t, used) ==
    LET splitPoint == t - s.startTime
    IN [s EXCEPT !.id = generateId(used),
                 !.duration = splitPoint,
                 !.sprite.time.duration = splitPoint]

\* ---------------------------------------------------------------- splitClip
\* the two sprites splitClip builds from sprite s at playhead time t
SplitFirst(s, t, used) ==
    LET splitPoint == t - s.startTime
    IN [s EXCEPT !.id = generateId(used),
                 !.duration = splitPoint,
                 !.sprite = [obj |-> generateId(used),
                             time |-> [offset |-> s.sprite.time.offset,
                                       duration |-> splitPoint,
                                       playbackRate |-> 1],
                             opacity |-> s.opacity]]

\* the second part given the timeline time of the split as its offset
SplitSecondAbsolute(s, t, used) ==
    LET splitPoint == t - s.startTime
    IN [s EXCEPT !.id = generateId(used),
                 !.startTime = s.startTime + splitPoint,
                 !.duration = s.duration - splitPoint,
                 !.sprite = [obj |-> generateId(used),
                             time |-> [offset |-> t,
                                       duration |-> s.duration - splitPoint,
                                       playbackRate |-> 1],
                             opacity |-> s.opacity]]

\* a second part built like a newly placed sprite: default filters, normal
\* speed, full opacity
SplitSecondDefaults(s, t, used) ==
    LET splitPoint == t - s.startTime
    IN [s EXCEPT !.id = generateId(used),
                 !.startTime = s.startTime + splitPoint,
                 !.duration = s.duration - splitPoint,
                 !.filters = DefaultFilters,
                 !.playbackRate = 1,
                 !.opacity = FullOpacity,
                 !.sprite = [obj |-> generateId(used),
                             time |-> [offset |-> s.sprite.time.offset + splitPoint,
                                       duration |-> s.duration - splitPoint,
                                       playbackRate |-> 1],
                             opacity |-> FullOpacity]]

SplitSecond(s, t, used) ==
    LET splitPoint == t - s.startTime
    IN [s EXCEPT !.id = generateId(used),
                 !.startTime = s.startTime + splitPoint,
                 !.duration = s.duration - splitPoint,
                 !.sprite = [obj |-> generateId(used),
                             time |-> [offset |-> s.sprite.time.offset + splitPoint,
                                       duration |-> s.duration - splitPoint,
                                       playbackRate |-> 1],
                             opacity |-> s.opacity]]

\* state.sprites.splice(spriteIndex, 1, sprite1, sprite2)
SplitSprites(sp, idx, t, used) ==
    LET s1 == SplitFirst(sp[idx], t, used)
        s2 == SplitSecond(sp[idx], t, used \cup {s1.id})
    IN SubSeq(sp, 1, idx - 1) \o <<s1, s2>> \o SubSeq(sp, idx + 1, Len(sp))

\* the playhead test letting the two ends of the sprite through
ValidSplitPointInclusive(s, t) ==
    ~(t < s.startTime \/ t > s.startTime + s.duration)

\* the playhead test of splitClip
ValidSplitPoint(s, t) ==
    ~(t <= s.startTime \/ t >= s.startTime + s.duration)

splitClip ==
    LET idx == FindIndex(sprites, selectedSpriteId)
    IN /\ IF selectedSpriteId = Null
          THEN /\ signal' = "SelectClipFirst"
               /\ UNCHANGED <<sprites, selectedSpriteId>>
          ELSE IF idx = 0
          THEN /\ signal' = "none"
               /\ UNCHANGED <<sprites, selectedSpriteId>>
          ELSE IF ~ValidSplitPoint(sprites[idx], currentTime)
          THEN /\ signal' = "InvalidSplitPoint"
               /\ UNCHANGED <<sprites, selectedSpriteId>>
          ELSE /\ Len(sprites) < MaxSprites
               /\ sprites' = SplitSprites(sprites, idx, currentTime, UsedSprites)
               /\ selectedSpriteId' = sprites'[idx].id
               /\ signal' = "none"
       /\ UNCHANGED <<historyVars, materials, currentTime, playVars, renders, canvas,
                      audioVars, placeholder, export>>

\* --------------------------------------------------------------- deleteClip
\* deleteClip shifting the source offsets along with the positions
DeleteSpritesShiftOffset(sp, idx) ==
    LET deletedDuration == sp[idx].duration
        rest == RemoveAt(sp, idx)
    IN [i \in DOMAIN rest |->
          IF i >= idx
          THEN [rest[i] EXCEPT
                  !.startTime = rest[i].startTime - deletedDuration,
                  !.sprite.time.offset = rest[i].sprite.time.offset - deletedDuration]
          ELSE rest[i]]

\* deleteClip without its loop: the later sprites stay where they were
DeleteSpritesNoShift(sp, idx) == RemoveAt(sp, idx)

\* splice(spriteIndex, 1), then the loop that shifts the later sprites
DeleteSprites(sp, idx) ==
    LET deletedDuration == sp[idx].duration
        rest == RemoveAt(sp, idx)
    IN [i \in DOMAIN rest |->
          IF i >= idx
          THEN [rest[i] EXCEPT !.startTime = rest[i].startTime - deletedDuration]
          ELSE rest[i]]

\* deleteClip stopped after its splice: the later sprites not yet shifted
deleteClipPartial(confirmed) ==
    LET idx == FindIndex(sprites, selectedSpriteId)
    IN /\ IF selectedSpriteId = Null
          THEN /\ signal' = "SelectClipFirst"
               /\ UNCHANGED <<sprites, selectedSpriteId, placeholder>>
          ELSE IF ~confirmed \/ idx = 0
          THEN /\ signal' = "none"
               /\ UNCHANGED <<sprites, selectedSpriteId, placeholder>>
          ELSE /\ sprites' = RemoveAt(sprites, idx)
               /\ selectedSpriteId' = Null
               /\ placeholder' = IF Len(sprites') = 0 THEN TRUE ELSE placeholder
               /\ signal' = "none"
       /\ UNCHANGED <<historyVars, materials, currentTime, playVars, renders, canvas,
                      audioVars, export>>

\* deleteClip that leaves the selection on the sprite it deleted
deleteClipKeepsSelection(confirmed) ==
    LET idx == FindIndex(sprites, selectedSpriteId)
    IN /\ IF selectedSpriteId = Null
          THEN /\ signal' = "SelectClipFirst"
               /\ UNCHANGED <<sprites, selectedSpriteId, placeholder>>
          ELSE IF ~confirmed \/ idx = 0
          THEN /\ signal' = "none"
               /\ UNCHANGED <<sprites, selectedSpriteId, placeholder>>
          ELSE /\ sprites' = DeleteSprites(sprites, idx)
               /\ selectedSpriteId' = selectedSpriteId
               /\ placeholder' = IF Len(sprites') = 0 THEN TRUE ELSE placeholder
               /\ signal' = "none"
       /\ UNCHANGED <<historyVars, materials, currentTime, playVars, renders, canvas,
                      audioVars, export>>

\* deleteClip without its last block: the placeholder stays as it was
deleteClipSilent(confirmed) ==
    LET idx == FindIndex(sprites, selectedSpriteId)
    IN /\ IF selectedSpriteId = Null
          THEN /\ signal' = "SelectClipFirst"
               /\ UNCHANGED <<sprites, selectedSpriteId, placeholder>>
          ELSE IF ~confirmed \/ idx = 0
          THEN /\ signal' = "none"
               /\ UNCHANGED <<sprites, selectedSpriteId, placeholder>>
          ELSE /\ sprites' = DeleteSprites(sprites, idx)
               /\ selectedSpriteId' = Null
               /\ placeholder' = placeholder
               /\ signal' = "none"
       /\ UNCHANGED <<historyVars, materials, currentTime, playVars, renders, canvas,
                      audioVars, export>>

deleteClip(confirmed) ==
    LET idx == FindIndex(sprites, selectedSpriteId)
    IN /\ IF selectedSpriteId = Null
          THEN /\ signal' = "SelectClipFirst"
               /\ UNCHANGED <<sprites, selectedSpriteId, placeholder>>
          ELSE IF ~confirmed \/ idx = 0
          THEN /\ signal' = "none"
               /\ UNCHANGED <<sprites, selectedSpriteId, placeholder>>
          ELSE /\ sprites' = DeleteSprites(sprites, idx)
               /\ selectedSpriteId' = Null
               /\ placeholder' = IF Len(sprites') = 0 THEN TRUE ELSE placeholder
               /\ signal' = "none"
       /\ UNCHANGED <<historyVars, materials, currentTime, playVars, renders, canvas,
                      audioVars, export>>

\* --------------------------------------------------------------- newProject
newProject(confirmed) ==
    /\ IF Len(sprites) > 0 /\ ~confirmed
       THEN UNCHANGED <<materials, sprites, selectedSpriteId, currentTime,
                        playVars, renders, canvas, nextAudioTime, placeholder>>
       ELSE /\ materials' = <<>>
            /\ sprites' = <<>>
            /\ selectedSpriteId' = Null
            /\ currentTime' = 0
            /\ isPlaying' = FALSE
            /\ rafQueue' = PauseQueue(rafQueue, animationFrameId)
            /\ animationFrameId' = Null
            /\ nextAudioTime' = PauseAudioTime
            /\ renders' = MarkStale(renders)
            /\ placeholder' = TRUE
            /\ canvas' = BlankCanvas
    /\ signal' = "none"
    /\ UNCHANGED <<historyVars, audioContext, audioClock, audioSchedule, export>>

\* ------------------------------------------------------------ playbackLoop
\* requestAnimationFrame returns an id no pending callback and no kept id has
NewRafId(rq, afid) ==
    Smallest((1..(Cardinality(rq \cup {afid}) + 1)) \ (rq \cup {afid}))

\* playbackLoop that at the end of the timeline clamps the time and goes on
\* to request the next frame instead of calling pause()
PlaybackLoopBodyNoStop(delta, rq, nat) ==
    LET idx == FindActive(sprites, currentTime)
        playbackRate == IF idx # 0 THEN sprites[idx].playbackRate ELSE 1
        time == currentTime + (delta * playbackRate)
        totalDuration == getTotalDuration(sprites)
        rc == renderFrame(sprites, time, "tick", renders, canvas)
        id == NewRafId(rq, animationFrameId)
    IN IF time >= totalDuration
       THEN /\ currentTime' = totalDuration
            /\ isPlaying' = TRUE
            /\ rafQueue' = rq \cup {id}
            /\ animationFrameId' = id
            /\ nextAudioTime' = nat
            /\ renders' = renders
            /\ canvas' = canvas
            /\ signal' = "none"
       ELSE /\ BagCardinality(rc.renders) + Cardinality(rq) <= MaxInflight
            /\ currentTime' = time
            /\ isPlaying' = TRUE
            /\ renders' = rc.renders
            /\ canvas' = rc.canvas
            /\ nextAudioTime' = nat
            /\ signal' = "none"
            /\ IF rc.suspended
               THEN /\ rafQueue' = rq
                    /\ animationFrameId' = animationFrameId
               ELSE /\ rafQueue' = rq \cup {id}
                    /\ animationFrameId' = id

\* playbackLoop() past its isPlaying test, run with the callback queue rq:
\* delta is the time performance.now() moved since state.lastFrameTime.
\* It ends either in pause() at the end of the timeline, or suspended in
\* renderFrame, or, with no sprite to render, at requestAnimationFrame.
PlaybackLoopBody(delta, rq, nat) ==
    LET idx == FindActive(sprites, currentTime)
        playbackRate == IF idx # 0 THEN sprites[idx].playbackRate ELSE 1
        time == currentTime + (delta * playbackRate)
        totalDuration == getTotalDuration(sprites)
        rc == renderFrame(sprites, time, "tick", renders, canvas)
        id == NewRafId(rq, animationFrameId)
    IN IF time >= totalDuration
       THEN /\ currentTime' = totalDuration
            /\ isPlaying' = FALSE
            /\ rafQueue' = PauseQueue(rq, animationFrameId)
            /\ animationFrameId' = Null
            /\ nextAudioTime' = PauseAudioTime
            /\ renders' = MarkStale(renders)
            /\ canvas' = canvas
            /\ signal' = "PlaybackEnded"
       ELSE /\ BagCardinality(rc.renders) + Cardinality(rq) <= MaxInflight
            /\ currentTime' = time
            /\ isPlaying' = TRUE
            /\ renders' = rc.renders
            /\ canvas' = rc.canvas
            /\ nextAudioTime' = nat
            /\ signal' = "none"
            /\ IF rc.suspended
               THEN /\ rafQueue' = rq
                    /\ animationFrameId' = animationFrameId
               ELSE /\ rafQueue' = rq \cup {id}
                    /\ animationFrameId' = id

\* togglePlayPause() while paused: play(), whose call of playbackLoop comes
\* right after it set lastFrameTime
play ==
    /\ ~isPlaying
    /\ IF Len(sprites) = 0
       THEN /\ signal' = "none"
            /\ UNCHANGED <<currentTime, playVars, renders, canvas, nextAudioTime>>
       ELSE PlaybackLoopBody(0, rafQueue,
                             IF audioContext THEN audioClock ELSE nextAudioTime)
    /\ UNCHANGED <<historyVars, timelineVars, audioContext, audioClock, audioSchedule,
                   placeholder, export>>

\* togglePlayPause() while playing: pause()
pause ==
    /\ isPlaying
    /\ isPlaying' = FALSE
    /\ rafQueue' = PauseQueue(rafQueue, animationFrameId)
    /\ animationFrameId' = Null
    /\ nextAudioTime' = PauseAudioTime
    /\ renders' = MarkStale(renders)
    /\ signal' = "none"
    /\ UNCHANGED <<historyVars, timelineVars, currentTime, canvas, audioContext, audioClock,
                   audioSchedule, placeholder, export>>

stop ==
    LET rc == renderFrame(sprites, 0, "call", MarkStale(renders), canvas)
    IN /\ BagCardinality(rc.renders) <= MaxInflight
       /\ isPlaying' = FALSE
       /\ rafQueue' = PauseQueue(rafQueue, animationFrameId)
       /\ animationFrameId' = Null
       /\ nextAudioTime' = PauseAudioTime
       /\ currentTime' = 0
       /\ renders' = rc.renders
       /\ canvas' = rc.canvas
       /\ signal' = "none"
       /\ UNCHANGED <<historyVars, timelineVars, audioContext, audioClock, audioSchedule,
                      placeholder, export>>

\* the browser runs the animation frame callback id: playbackLoop()
AnimationFrame(id, delta) ==
    /\ id \in rafQueue
    /\ IF ~isPlaying
       THEN /\ rafQueue' = rafQueue \ {id}
            /\ signal' = "none"
            /\ UNCHANGED <<currentTime, isPlaying, animationFrameId, renders,
                           canvas, nextAudioTime>>
       ELSE PlaybackLoopBody(delta, rafQueue \ {id}, nextAudioTime)
    /\ UNCHANGED <<historyVars, timelineVars, audioContext, audioClock, audioSchedule,
                   placeholder, export>>

\* --------------------------------------------------------- playAudioSamples
\* the start time source.start gets for the next buffer
PlayTime(nat, clock) == Max(nat, clock)

\* the cursor playAudioSamples reads: a context it has to create starts it
\* at the audio clock
AudioCursor == IF audioContext THEN nextAudioTime ELSE audioClock

\* -------------------------------------------- renderFrame after clip.tick
\* clip.tick of the suspended call r settles: rejected (ok = FALSE), or with
\* a video frame or not, and audio samples of duration audioLen (0: none).
\* A call made by playbackLoop goes on to requestAnimationFrame.
DecodeComplete(r, ok, video, audioLen) ==
    LET playTime == PlayTime(AudioCursor, audioClock)
        id == NewRafId(rafQueue, animationFrameId)
    IN /\ BagIn(r, renders)
       /\ ok \/ (~video /\ audioLen = 0)
       /\ renders' = renders (-) SetToBag({r})
       /\ canvas' = IF video
                    THEN [kind |-> "frame", by |-> r.kind, stale |-> r.stale]
                    ELSE canvas
       /\ IF audioLen > 0
          THEN /\ playTime + audioLen <= MaxAudioTime
               /\ audioContext' = TRUE
               /\ audioSchedule' = LastTwo(Append(audioSchedule,
                                      [start |-> playTime, duration |-> audioLen]))
               /\ nextAudioTime' = playTime + audioLen
          ELSE UNCHANGED <<audioContext, audioSchedule, nextAudioTime>>
       /\ IF r.kind = "tick"
          THEN /\ rafQueue' = rafQueue \cup {id}
               /\ animationFrameId' = id
          ELSE UNCHANGED <<rafQueue, animationFrameId>>
       /\ signal' = IF ok THEN "none" ELSE "RenderError"
       /\ UNCHANGED <<historyVars, timelineVars, currentTime, isPlaying, audioClock,
                      placeholder, export>>

\* the audio hardware clock moves on
AudioClockAdvance ==
    /\ audioContext
    /\ audioClock < MaxAudioTime
    /\ audioClock' = audioClock + 1
    /\ UNCHANGED <<historyVars, timelineVars, currentTime, playVars, renders, canvas,
                   audioContext, nextAudioTime, audioSchedule, placeholder,
                   signal, export>>

\* ------------------------------------------------------------------ filters
hasActiveFilters(filters) ==
    \/ filters.grayscale
    \/ filters.sepia
    \/ filters.brightness # 10
    \/ filters.contrast # 10
    \/ filters.blur > 0

\* buildFilterString(filters): the CSS filters it names, "" being <<>>
buildFilterString(filters) ==
    (IF filters.grayscale THEN <<"grayscale">> ELSE <<>>)
        \o (IF filters.sepia THEN <<"sepia">> ELSE <<>>)
        \o (IF filters.brightness # 10 THEN <<"brightness">> ELSE <<>>)
        \o (IF filters.contrast # 10 THEN <<"contrast">> ELSE <<>>)
        \o (IF filters.blur > 0 THEN <<"blur">> ELSE <<>>)

\* the filter buttons the model clicks
FilterNames == {"grayscale", "none"}

\* the settings applyFilterToSelectedSprite leaves for a button
FilterFor(filterName) ==
    CASE filterName = "grayscale" -> [DefaultFilters EXCEPT !.grayscale = TRUE]
      [] filterName = "sepia" -> [DefaultFilters EXCEPT !.sepia = TRUE]
      [] filterName = "brightness" -> [DefaultFilters EXCEPT !.brightness = 15]
      [] filterName = "contrast" -> [DefaultFilters EXCEPT !.contrast = 15]
      [] filterName = "blur" -> [DefaultFilters EXCEPT !.blur = 5]
      [] OTHER -> DefaultFilters

\* applyFilterToSelectedSprite writing into a filters object that the sprites
\* of one material share
FilterSharedByMaterial(filterName) ==
    LET idx == FindIndex(sprites, selectedSpriteId)
        sp == [i \in 1..Len(sprites) |->
                  IF sprites[i].materialId = sprites[idx].materialId
                  THEN [sprites[i] EXCEPT !.filters = FilterFor(filterName)]
                  ELSE sprites[i]]
        rc == renderFrame(sp, currentTime, "call", renders, canvas)
    IN /\ IF selectedSpriteId = Null
          THEN /\ signal' = "SelectClipFirst"
               /\ UNCHANGED <<sprites, renders, canvas>>
          ELSE IF idx = 0
          THEN /\ signal' = "none"
               /\ UNCHANGED <<sprites, renders, canvas>>
          ELSE /\ BagCardinality(rc.renders) <= MaxInflight
               /\ sprites' = sp
               /\ renders' = rc.renders
               /\ canvas' = rc.canvas
               /\ signal' = "none"
       /\ UNCHANGED <<historyVars, materials, selectedSpriteId, currentTime, playVars,
                      audioVars, placeholder, export>>

applyFilterToSelectedSprite(filterName) ==
    LET idx == FindIndex(sprites, selectedSpriteId)
        sp == [sprites EXCEPT ![idx].filters = FilterFor(filterName)]
        rc == renderFrame(sp, currentTime, "call", renders, canvas)
    IN /\ IF selectedSpriteId = Null
          THEN /\ signal' = "SelectClipFirst"
               /\ UNCHANGED <<sprites, renders, canvas>>
          ELSE IF idx = 0
          THEN /\ signal' = "none"
               /\ UNCHANGED <<sprites, renders, canvas>>
          ELSE /\ BagCardinality(rc.renders) <= MaxInflight
               /\ sprites' = sp
               /\ renders' = rc.renders
               /\ canvas' = rc.canvas
               /\ signal' = "none"
       /\ UNCHANGED <<historyVars, materials, selectedSpriteId, currentTime, playVars,
                      audioVars, placeholder, export>>

\* ----------------------------------------------------- speed and opacity
\* the speeds of the speed select and the positions of the opacity slider
\* the model uses (opacity in percent)
Speeds == {1, 2}
Opacities == {50, 100}

setSelectedSpriteSpeed(speed) ==
    LET idx == FindIndex(sprites, selectedSpriteId)
        sp == [sprites EXCEPT ![idx].playbackRate = speed,
                              ![idx].sprite.time.playbackRate = speed]
        rc == renderFrame(sp, currentTime, "call", renders, canvas)
    IN /\ IF selectedSpriteId = Null \/ idx = 0
          THEN UNCHANGED <<sprites, renders, canvas>>
          ELSE /\ BagCardinality(rc.renders) <= MaxInflight
               /\ sprites' = sp
               /\ renders' = rc.renders
               /\ canvas' = rc.canvas
       /\ signal' = "none"
       /\ UNCHANGED <<historyVars, materials, selectedSpriteId, currentTime, playVars,
                      audioVars, placeholder, export>>

setSelectedSpriteOpacity(opacity) ==
    LET idx == FindIndex(sprites, selectedSpriteId)
        sp == [sprites EXCEPT ![idx].opacity = opacity,
                              ![idx].sprite.opacity = opacity]
        rc == renderFrame(sp, currentTime, "call", renders, canvas)
    IN /\ IF selectedSpriteId = Null \/ idx = 0
          THEN UNCHANGED <<sprites, renders, canvas>>
          ELSE /\ BagCardinality(rc.renders) <= MaxInflight
               /\ sprites' = sp
               /\ renders' = rc.renders
               /\ canvas' = rc.canvas
       /\ signal' = "none"
       /\ UNCHANGED <<historyVars, materials, selectedSpriteId, currentTime, playVars,
                      audioVars, placeholder, export>>

\* ------------------------------------------------------------- exportVideo
\* an export sprite that is the OffscreenSprite of the timeline sprite
ExportSpriteReuse(s, clipToUse, intercepted, usedObjs) ==
    [obj |-> s.sprite.obj,
     clip |-> clipToUse,
     intercepted |-> intercepted,
     time |-> [offset |-> s.sprite.time.offset, duration |-> s.duration],
     opacity |-> s.opacity]

\* an export sprite placed by the sprite's position on the timeline and left
\* at the opacity a new OffscreenSprite has
ExportSpriteUnconfigured(s, clipToUse, intercepted, usedObjs) ==
    [obj |-> NewObject(usedObjs),
     clip |-> clipToUse,
     intercepted |-> intercepted,
     time |-> [offset |-> s.startTime, duration |-> s.duration],
     opacity |-> FullOpacity]

\* new OffscreenSprite(clipToUse) with the time and opacity of spriteState
ExportSprite(s, clipToUse, intercepted, usedObjs) ==
    [obj |-> NewObject(usedObjs),
     clip |-> clipToUse,
     intercepted |-> intercepted,
     time |-> [offset |-> s.sprite.time.offset, duration |-> s.duration],
     opacity |-> s.opacity]

\* spriteState, the object the loop took from state.sprites, as it is now:
\* the edits that keep an object in the timeline change it in place
LiveSprite(s) ==
    IF FindIndex(sprites, s.id) # 0 THEN sprites[FindIndex(sprites, s.id)] ELSE s

\* a turn of the loop that sets the filter interception on the material's
\* own clip instead of a clone of it
ExportTurnShared(ex, i, s) ==
    [ex EXCEPT !.pc = "add", !.i = i, !.cur = NoSprite,
               !.pending = ExportSprite(s, s.clip, hasActiveFilters(s.filters),
                                        UsedExportSprites)]

\* one turn of the for loop up to its first await, for the sprite s
\* (state.sprites[i - 1]): a filtered sprite waits for clip.clone(), any
\* other goes to combinator.addSprite with the material's own clip
ExportTurn(ex, i, s) ==
    IF hasActiveFilters(s.filters)
    THEN [ex EXCEPT !.pc = "clone", !.i = i, !.cur = s, !.pending = NoSprite]
    ELSE [ex EXCEPT !.pc = "add", !.i = i, !.cur = NoSprite,
                    !.pending = ExportSprite(s, s.clip, FALSE, UsedExportSprites)]

\* the loop test i < state.sprites.length, read when the loop comes round
ExportLoop(ex, i) ==
    IF i <= Len(sprites)
    THEN ExportTurn(ex, i, sprites[i])
    ELSE [ex EXCEPT !.pc = "read", !.i = i, !.cur = NoSprite, !.pending = NoSprite]

\* a catch inside the loop that logs the failure and goes on with the next
\* sprite
ExportFailedSkips(ex) == ExportLoop(ex, ex.i + 1)

\* the catch block: the Combinator and what it holds are dropped
ExportFailed(ex) ==
    [ex EXCEPT !.pc = "failed", !.cur = NoSprite, !.pending = NoSprite,
               !.registered = <<>>, !.chunks = 0]

\* exportVideo without the test for an empty timeline
exportVideoUnvalidated(confirmed) ==
    /\ export.pc \in {"idle", "done", "failed"}
    /\ IF ~confirmed
       THEN /\ signal' = "none"
            /\ UNCHANGED export
       ELSE IF Len(sprites) > 0
               /\ FindMaterial(materials, sprites[1].materialId) = 0
       THEN /\ signal' = "ExportFailed"
            /\ export' = ExportFailed(IdleExport)
       ELSE /\ signal' = "none"
            /\ export' = ExportLoop(IdleExport, 1)
    /\ UNCHANGED <<historyVars, timelineVars, currentTime, playVars, renders, canvas,
                   audioVars, placeholder>>

\* a click on the export button, up to the first await
exportVideo(confirmed) ==
    /\ export.pc \in {"idle", "done", "failed"}
    /\ IF Len(sprites) = 0
       THEN /\ signal' = "NoClipsToExport"
            /\ UNCHANGED export
       ELSE IF ~confirmed
       THEN /\ signal' = "none"
            /\ UNCHANGED export
       ELSE IF FindMaterial(materials, sprites[1].materialId) = 0
       THEN /\ signal' = "ExportFailed"
            /\ export' = ExportFailed(IdleExport)
       ELSE /\ signal' = "none"
            /\ export' = ExportLoop(IdleExport, 1)
    /\ UNCHANGED <<historyVars, timelineVars, currentTime, playVars, renders, canvas,
                   audioVars, placeholder>>

\* ExportCloneDone as it would be if the time of the export were written to
\* the timeline sprite's own handle (spriteState.sprite.time = {offset,
\* duration}), which drops the rate the preview plays that sprite at
ExportCloneDoneRetimes(ok) ==
    /\ export.pc = "clone"
    /\ export' = IF ok
                 THEN [export EXCEPT
                        !.pc = "add", !.cur = NoSprite,
                        !.pending = ExportSprite(
                            LiveSprite(export.cur), NewObject(UsedExportClips),
                            buildFilterString(LiveSprite(export.cur).filters) # <<>>,
                            UsedExportSprites)]
                 ELSE ExportFailed(export)
    /\ signal' = IF ok THEN "none" ELSE "ExportFailed"
    /\ sprites' = [k \in DOMAIN sprites |->
                    IF sprites[k].id = export.cur.id
                    THEN [sprites[k] EXCEPT !.sprite.time.playbackRate = 1]
                    ELSE sprites[k]]
    /\ UNCHANGED <<historyVars, materials, selectedSpriteId, currentTime, playVars, renders,
                   canvas, audioVars, placeholder>>

\* clip.clone() settles; applyFiltersToClip sets the tickInterceptor of the
\* clone unless the filters spriteState has by now give an empty filter
\* string, and the export sprite goes to combinator.addSprite
ExportCloneDone(ok) ==
    /\ export.pc = "clone"
    /\ IF ok
       THEN LET clone == NewObject(UsedExportClips)
            IN /\ export' = [export EXCEPT
                    !.pc = "add", !.cur = NoSprite,
                    !.pending = ExportSprite(
                        LiveSprite(export.cur), clone,
                        buildFilterString(LiveSprite(export.cur).filters) # <<>>,
                        UsedExportSprites)]
               /\ signal' = "none"
       ELSE /\ export' = ExportFailed(export)
            /\ signal' = "ExportFailed"
    /\ UNCHANGED <<historyVars, timelineVars, currentTime, playVars, renders, canvas,
                   audioVars, placeholder>>

\* combinator.addSprite settles: progress, then the next turn of the loop
\* or combinator.output() and the first reader.read()
ExportAddDone(ok) ==
    /\ export.pc = "add"
    /\ IF ok
       THEN /\ export' = ExportLoop(
                    [export EXCEPT
                        !.registered = Append(@, export.pending),
                        !.progress = [num |-> (export.i - 1) * 50,
                                      den |-> Len(sprites)]],
                    export.i + 1)
            /\ signal' = "none"
       ELSE /\ export' = ExportFailed(export)
            /\ signal' = "ExportFailed"
    /\ UNCHANGED <<historyVars, timelineVars, currentTime, playVars, renders, canvas,
                   audioVars, placeholder>>

\* reader.read() settles with a chunk, with done, or rejected
ExportRead(outcome) ==
    /\ export.pc = "read"
    /\ CASE outcome = "chunk" ->
              /\ export.chunks < MaxChunks
              /\ export' = [export EXCEPT
                    !.chunks = @ + 1,
                    !.progress = [num |-> 5000 + Min((export.chunks + 1) * 49, 4900),
                                  den |-> 100]]
              /\ signal' = "none"
         [] outcome = "done" ->
              /\ export' = [export EXCEPT
                    !.pc = "done", !.artifact = TRUE, !.registered = <<>>,
                    !.progress = [num |-> 100, den |-> 1]]
              /\ signal' = "ExportComplete"
         [] OTHER ->
              /\ export' = ExportFailed(export)
              /\ signal' = "ExportFailed"
    /\ UNCHANGED <<historyVars, timelineVars, currentTime, playVars, renders, canvas,
                   audioVars, placeholder>>

\* ---------------------------------------------------------- HistoryManager
maxStackSize == 50

\* a HistoryAction: its do and undo closures are the sprite sequences they
\* install, id tells the actions of one history apart
HistoryAction(id, undoTo, doTo) == [id |-> id, undoTo |-> undoTo, doTo |-> doTo]

\* the number after the newest action on the undo stack (a push empties the
\* redo stack, so the numbers of undone actions are free again)
NextActionId == IF undoStack = <<>> THEN 1 ELSE undoStack[Len(undoStack)].id + 1

\* Array.pop: the array without its last element
Front(stack) == SubSeq(stack, 1, Len(stack) - 1)

\* push without the limit on the stack size
pushUnlimited(action) ==
    LET pushed == Append(undoStack, action)
    IN /\ redoStack' = <<>>
       /\ undoStack' = pushed
       /\ signal' = "none"
       /\ UNCHANGED <<timelineVars, currentTime, renders, canvas, placeholder,
                      playVars, audioVars, export>>

push(action) ==
    LET pushed == Append(undoStack, action)
    IN /\ redoStack' = <<>>
       /\ undoStack' = IF Len(pushed) > maxStackSize
                          THEN Tail(pushed)
                          ELSE pushed
       /\ signal' = "none"
       /\ UNCHANGED <<timelineVars, currentTime, renders, canvas, placeholder,
                      playVars, audioVars, export>>

\* undo whose catch block only logs: the action it popped is gone
undoDropsFailed(ok) ==
    IF undoStack = <<>>
    THEN /\ signal' = "NothingToUndo"
         /\ UNCHANGED <<historyVars, timelineVars, currentTime, renders, canvas,
                        placeholder, playVars, audioVars, export>>
    ELSE LET action == undoStack[Len(undoStack)]
         IN /\ undoStack' = Front(undoStack)
            /\ IF ok
               THEN /\ sprites' = action.undoTo
                    /\ redoStack' = Append(redoStack, action)
                    /\ signal' = "none"
               ELSE /\ signal' = "UndoError"
                    /\ UNCHANGED <<sprites, redoStack>>
            /\ UNCHANGED <<materials, selectedSpriteId, currentTime, renders,
                           canvas, placeholder, playVars, audioVars, export>>

\* undo(): ok tells whether the undo closure of the action returns; when it
\* throws, the action goes back onto the undo stack and undo returns false
\* after logging the error
undo(ok) ==
    IF undoStack = <<>>
    THEN /\ signal' = "NothingToUndo"
         /\ UNCHANGED <<historyVars, timelineVars, currentTime, renders, canvas,
                        placeholder, playVars, audioVars, export>>
    ELSE LET action == undoStack[Len(undoStack)]
             popped == Front(undoStack)
         IN /\ IF ok
               THEN /\ sprites' = action.undoTo
                    /\ undoStack' = popped
                    /\ redoStack' = Append(redoStack, action)
                    /\ signal' = "none"
               ELSE /\ undoStack' = Append(popped, action)
                    /\ signal' = "UndoError"
                    /\ UNCHANGED <<sprites, redoStack>>
            /\ UNCHANGED <<materials, selectedSpriteId, currentTime, renders,
                           canvas, placeholder, playVars, audioVars, export>>

redo(ok) ==
    IF redoStack = <<>>
    THEN /\ signal' = "NothingToRedo"
         /\ UNCHANGED <<historyVars, timelineVars, currentTime, renders, canvas,
                        placeholder, playVars, audioVars, export>>
    ELSE LET action == redoStack[Len(redoStack)]
             popped == Front(redoStack)
         IN /\ IF ok
               THEN /\ sprites' = action.doTo
                    /\ redoStack' = popped
                    /\ undoStack' = Append(undoStack, action)
                    /\ signal' = "none"
               ELSE /\ redoStack' = Append(popped, action)
                    /\ signal' = "RedoError"
                    /\ UNCHANGED <<sprites, undoStack>>
            /\ UNCHANGED <<materials, selectedSpriteId, currentTime, renders,
                           canvas, placeholder, playVars, audioVars, export>>

clear ==
    /\ undoStack' = <<>>
    /\ redoStack' = <<>>
    /\ signal' = "none"
    /\ UNCHANGED <<timelineVars, currentTime, renders, canvas, placeholder,
                   playVars, audioVars, export>>

\* -------------------------------------------------------------------- Init
Init ==
    /\ materials = <<>>
    /\ sprites = <<>>
    /\ selectedSpriteId = Null
    /\ currentTime = 0
    /\ isPlaying = FALSE
    /\ animationFrameId = Null
    /\ rafQueue = {}
    /\ renders = EmptyBag
    /\ canvas = BlankCanvas
    /\ audioContext = FALSE
    /\ audioClock = 0
    /\ nextAudioTime = 0
    /\ audioSchedule = <<>>
    /\ placeholder = TRUE
    /\ signal = "none"
    /\ export = IdleExport
    /\ undoStack = <<>>
    /\ redoStack = <<>>

\* the timeline and its edit operations, with the preview renders they start
LoadStep == \E d \in MaterialDurations : LoadVideoFile(d, TRUE)
LoadFailStep == \E d \in MaterialDurations : LoadVideoFile(d, FALSE)
AddStep == \E k \in DOMAIN materials : AddMaterialToTimeline(k)
SelectStep == \E k \in 1..MaxSprites : selectSprite(k)
SeekStep == \E t \in 0..(getTotalDuration(sprites) + 1) : handleTimelineClick(t)
\* a click one time unit into the track
SeekInsideStep == handleTimelineClick(1)
DeleteStep == \E confirmed \in BOOLEAN : deleteClip(confirmed)
NewProjectStep == \E confirmed \in BOOLEAN : newProject(confirmed)
\* a decode of a source without an audio track
DecodeStep ==
    \E r \in BagToSet(renders), ok \in BOOLEAN, video \in BOOLEAN :
        DecodeComplete(r, ok, video, 0)
\* a decode of a source with one
DecodeAudioStep ==
    \E r \in BagToSet(renders), ok \in BOOLEAN, video \in BOOLEAN,
       audioLen \in BufferDurations : DecodeComplete(r, ok, video, audioLen)
FrameStep == \E id \in rafQueue, delta \in FrameDeltas : AnimationFrame(id, delta)
FilterStep == \E f \in FilterNames : applyFilterToSelectedSprite(f)
SpeedStep == \E speed \in Speeds : setSelectedSpriteSpeed(speed)
OpacityStep == \E opacity \in Opacities : setSelectedSpriteOpacity(opacity)
ExportStartStep == \E confirmed \in BOOLEAN : exportVideo(confirmed)
ExportCloneStep == \E ok \in BOOLEAN : ExportCloneDone(ok)
ExportAddStep == \E ok \in BOOLEAN : ExportAddDone(ok)
ExportReadStep == \E o \in {"chunk", "done", "error"} : ExportRead(o)

Next ==
    \/ LoadStep
    \/ AddStep
    \/ SelectStep
    \/ SeekStep
    \/ splitClip
    \/ DeleteStep
    \/ NewProjectStep
    \/ DecodeStep

Spec == Init /\ [][Next]_vars

\* playback of a source without audio: the loop, its renders, play, pause,
\* stop and seeks
NextPlay ==
    \/ LoadStep
    \/ SeekStep
    \/ play
    \/ pause
    \/ stop
    \/ FrameStep
    \/ DecodeStep

SpecPlay == Init /\ [][NextPlay]_vars

\* playback of a source with audio, against the audio clock
NextAudio ==
    \/ LoadStep
    \/ play
    \/ pause
    \/ FrameStep
    \/ DecodeAudioStep
    \/ AudioClockAdvance

SpecAudio == Init /\ [][NextAudio]_vars

\* export, with the edits and filter changes that can run while it is
\* suspended; one preview render is in flight at a time
OneRenderInFlight == BagCardinality(renders') <= 1

NextExport ==
    \/ LoadStep /\ OneRenderInFlight
    \/ SelectStep
    \/ SeekInsideStep /\ OneRenderInFlight
    \/ FilterStep /\ OneRenderInFlight
    \/ splitClip
    \/ DeleteStep
    \/ DecodeStep
    \/ ExportStartStep
    \/ ExportCloneStep
    \/ ExportAddStep
    \/ ExportReadStep

SpecExport == Init /\ [][NextExport]_vars

\* the edits of one clip with everything that reads the timeline around
\* them: playback ticks, preview renders and the steps of an export that
\* reads one chunk
OneChunkRead == export'.chunks <= 1

NextObserved ==
    \/ LoadStep /\ OneRenderInFlight
    \/ SelectStep
    \/ SeekInsideStep /\ OneRenderInFlight
    \/ splitClip
    \/ DeleteStep
    \/ play /\ OneRenderInFlight
    \/ FrameStep /\ OneRenderInFlight
    \/ DecodeStep
    \/ ExportStartStep
    \/ ExportAddStep
    \/ ExportReadStep /\ OneChunkRead

SpecObserved == Init /\ [][NextObserved]_vars

\* one clip with its filters, speed and opacity set from the panel, played
\* and exported
NextFrames ==
    \/ LoadStep /\ OneRenderInFlight
    \/ SelectStep
    \/ FilterStep /\ OneRenderInFlight
    \/ SpeedStep /\ OneRenderInFlight
    \/ OpacityStep /\ OneRenderInFlight
    \/ play /\ OneRenderInFlight
    \/ FrameStep /\ OneRenderInFlight
    \/ DecodeStep
    \/ ExportStartStep
    \/ ExportCloneStep
    \/ ExportAddStep
    \/ ExportReadStep /\ OneChunkRead

SpecFrames == Init /\ [][NextFrames]_vars

\* the export of a timeline whose sprites were split, filtered and made
\* transparent, reading one chunk
NextStyled ==
    \/ LoadStep /\ OneRenderInFlight
    \/ SelectStep
    \/ SeekInsideStep /\ OneRenderInFlight
    \/ FilterStep /\ OneRenderInFlight
    \/ OpacityStep /\ OneRenderInFlight
    \/ splitClip
    \/ DecodeStep
    \/ ExportStartStep
    \/ ExportCloneStep
    \/ ExportAddStep
    \/ ExportReadStep /\ OneChunkRead

SpecStyled == Init /\ [][NextStyled]_vars

\* playback of a clip that is split and sped up, with seeks
NextTick ==
    \/ LoadStep /\ OneRenderInFlight
    \/ SelectStep
    \/ SeekStep /\ OneRenderInFlight
    \/ splitClip
    \/ SpeedStep /\ OneRenderInFlight
    \/ play /\ OneRenderInFlight
    \/ FrameStep /\ OneRenderInFlight
    \/ DecodeStep

SpecTick == Init /\ [][NextTick]_vars

\* the edits of the timeline and of the selected sprite's filters, speed and
\* opacity, with the preview renders they start
NextEdit ==
    \/ LoadStep /\ OneRenderInFlight
    \/ SelectStep
    \/ SeekStep /\ OneRenderInFlight
    \/ FilterStep /\ OneRenderInFlight
    \/ SpeedStep /\ OneRenderInFlight
    \/ OpacityStep /\ OneRenderInFlight
    \/ splitClip
    \/ DeleteStep
    \/ DecodeStep

SpecEdit == Init /\ [][NextEdit]_vars

\* the history on its own: a caller pushes actions whose closures leave the
\* timeline as it is, and undoes and redoes them
PushStep ==
    /\ NextActionId <= MaxPushes
    /\ push(HistoryAction(NextActionId, sprites, sprites))
UndoStep == \E ok \in BOOLEAN : undo(ok)
RedoStep == \E ok \in BOOLEAN : redo(ok)
ClearStep == clear

NextHistory ==
    \/ PushStep
    \/ UndoStep
    \/ RedoStep
    \/ ClearStep
SpecHistory == Init /\ [][NextHistory]_vars

\* the edits of one clip together with the undo and the redo of the history
NextUndo ==
    \/ LoadStep
    \/ SelectStep
    \/ SeekStep
    \/ splitClip
    \/ DeleteStep
    \/ DecodeStep
    \/ UndoStep
    \/ RedoStep
SpecUndo == Init /\ [][NextUndo]_vars

\* playback that is never paused: every animation frame finds that time has
\* moved on, the browser runs every callback it was asked for and every
\* decode settles, that of a tick and that of any other render
PositiveFrameStep ==
    \E id \in rafQueue, delta \in FrameDeltas \ {0} : AnimationFrame(id, delta)
TickDecodeStep ==
    \E r \in BagToSet(renders), ok \in BOOLEAN, video \in BOOLEAN :
        r.kind = "tick" /\ DecodeComplete(r, ok, video, 0)
CallDecodeStep ==
    \E r \in BagToSet(renders), ok \in BOOLEAN, video \in BOOLEAN :
        r.kind = "call" /\ DecodeComplete(r, ok, video, 0)

NextLive ==
    \/ LoadStep /\ OneRenderInFlight
    \/ SelectStep
    \/ splitClip
    \/ SpeedStep /\ OneRenderInFlight
    \/ play
    \/ PositiveFrameStep
    \/ TickDecodeStep
    \/ CallDecodeStep
SpecLive ==
    /\ Init
    /\ [][NextLive]_vars
    /\ WF_vars(PositiveFrameStep)
    /\ WF_vars(TickDecodeStep)
    /\ WF_vars(CallDecodeStep)

\* ------------------------------------------------------------------ claims
SelectedIndex == FindIndex(sprites, selectedSpriteId)

\* C1: whatever appends, splits and deletes have run, each sprite starts
\* where the sprite before it ends: no gap and no overlap.
C1_Contiguous ==
    \A i \in 1..(Len(sprites) - 1) :
        sprites[i + 1].startTime = sprites[i].startTime + sprites[i].duration

\* an appended sprite was split and its first part deleted, and at least two
\* sprites are left
C1_Witness ==
    /\ Len(sprites) >= 2
    /\ sprites[1].sprite.time.offset > 0
    /\ selectedSpriteId = Null

\* C4: a split at playhead time t leaves two sprites whose durations add up
\* to the duration of the one they replace; the first keeps its startTime
\* and source offset, the second starts at t with the source offset of the
\* original plus (t - original startTime).
C4_SplitConserves ==
    [][(splitClip /\ sprites' # sprites) =>
        LET o == sprites[SelectedIndex]
            a == sprites'[SelectedIndex]
            b == sprites'[SelectedIndex + 1]
        IN /\ Len(sprites') = Len(sprites) + 1
           /\ a.duration + b.duration = o.duration
           /\ a.startTime = o.startTime
           /\ a.sprite.time.offset = o.sprite.time.offset
           /\ b.startTime = currentTime
           /\ b.sprite.time.offset =
                o.sprite.time.offset + (currentTime - o.startTime)]_vars

\* the selected sprite is the first part of a split whose second part has a
\* source offset that differs from its timeline position
C4_Witness ==
    \E i \in 1..(Len(sprites) - 1) :
        /\ selectedSpriteId = sprites[i].id
        /\ sprites[i + 1].materialId = sprites[i].materialId
        /\ sprites[i + 1].sprite.time.offset =
              sprites[i].sprite.time.offset + sprites[i].duration
        /\ sprites[i + 1].sprite.time.offset > 0
        /\ sprites[i + 1].sprite.time.offset # sprites[i + 1].startTime

\* C5: a delete leaves the sprites before the deleted one as they were, and
\* every sprite after it as it was but for its startTime, which goes down by
\* the deleted sprite's duration: no source offset and no duration changes.
C5_DeleteFrame ==
    [][(deleteClip(TRUE) /\ sprites' # sprites) =>
        /\ Len(sprites') = Len(sprites) - 1
        /\ \A j \in 1..Len(sprites') :
              IF j < SelectedIndex
              THEN sprites'[j] = sprites[j]
              ELSE sprites'[j] =
                     [sprites[j + 1] EXCEPT
                        !.startTime = @ - sprites[SelectedIndex].duration]]_vars

\* a delete has run (nothing is selected) and the sprite now first is the
\* second part of a split, moved to the start with its source offset kept
C5_Witness ==
    /\ selectedSpriteId = Null
    /\ Len(sprites) >= 1
    /\ sprites[1].startTime = 0
    /\ sprites[1].sprite.time.offset > 0

\* C6: a split asked for with the playhead not strictly inside the selected
\* sprite tells the user so and leaves the sprites and the selection alone.
C6_InvalidSplitIsNoOp ==
    [][(/\ splitClip
        /\ SelectedIndex # 0
        /\ ~(/\ sprites[SelectedIndex].startTime < currentTime
             /\ currentTime < sprites[SelectedIndex].startTime
                                + sprites[SelectedIndex].duration))
       => /\ sprites' = sprites
          /\ selectedSpriteId' = selectedSpriteId
          /\ signal' = "InvalidSplitPoint"]_vars

\* a split was refused with the playhead on the end of the selected sprite
C6_Witness ==
    /\ signal = "InvalidSplitPoint"
    /\ SelectedIndex # 0
    /\ currentTime = sprites[SelectedIndex].startTime
                       + sprites[SelectedIndex].duration

\* the renders playbackLoop started that have not settled
TickRendersInFlight ==
    BagCardinality(renders)
        - BagCardinality([r \in {x \in BagToSet(renders) : x.kind = "call"}
                             |-> CopiesIn(r, renders)])

\* C2: while the render of a tick is in flight no other tick has been
\* started and none is scheduled, so the renders of two ticks never overlap.
C2_TicksSequential ==
    /\ TickRendersInFlight <= 1
    /\ (TickRendersInFlight = 1 => rafQueue = {})

\* C3: what the canvas shows is never a frame decoded for a tick that a
\* pause or stop found in flight.
C3_NoRenderAfterPause ==
    ~(canvas.kind = "frame" /\ canvas.by = "tick" /\ canvas.stale)

\* C8: from pause or stop until the next play no playbackLoop callback is
\* scheduled.
C8_PausedMeansNothingScheduled ==
    ~isPlaying => (rafQueue = {} /\ animationFrameId = Null)

\* C9: of two buffers scheduled one after the other, the later starts no
\* earlier than the end of the one before.
C9_AudioNonOverlap ==
    \A i \in 1..(Len(audioSchedule) - 1) :
        audioSchedule[i + 1].start >=
            audioSchedule[i].start + audioSchedule[i].duration

\* the handles the export compositor was given or is about to be given
ExportHandles ==
    Range(export.registered)
        \cup (IF export.pending # NoSprite THEN {export.pending} ELSE {})

\* C10: a handle the export compositor holds is the handle of no timeline
\* sprite, and no two handles it holds are one object.
C10_ExportHandlesAreNew ==
    /\ \A h \in ExportHandles :
          \A i \in DOMAIN sprites : h.obj # sprites[i].sprite.obj
    /\ \A i, j \in DOMAIN export.registered :
          i # j => export.registered[i].obj # export.registered[j].obj
    /\ export.pending # NoSprite =>
          \A i \in DOMAIN export.registered :
              export.registered[i].obj # export.pending.obj

\* two sprites are registered with the compositor, the second over a clone
\* with a filter, and the export reads the output
C10_Witness ==
    /\ export.pc = "read"
    /\ Len(export.registered) = 2
    /\ Len(sprites) = 2
    /\ export.registered[2].intercepted

\* a timeline no edit is half way through: the sprites follow one another
\* from time 0 and each handle plays for the duration of its sprite
WholeTimeline ==
    /\ Len(sprites) > 0 => sprites[1].startTime = 0
    /\ \A i \in 1..(Len(sprites) - 1) :
          sprites[i + 1].startTime = sprites[i].startTime + sprites[i].duration
    /\ \A i \in DOMAIN sprites :
          /\ sprites[i].duration > 0
          /\ sprites[i].sprite.time.duration = sprites[i].duration

\* the step put one sprite behind the others
StepAppended ==
    /\ Len(sprites') = Len(sprites) + 1
    /\ SubSeq(sprites', 1, Len(sprites)) = sprites
    /\ selectedSpriteId' = selectedSpriteId

\* the step replaced the selected sprite by its two parts, selected the first
\* and touched no other sprite
StepSplitInFull ==
    \E k \in DOMAIN sprites :
        /\ sprites[k].id = selectedSpriteId
        /\ Len(sprites') = Len(sprites) + 1
        /\ \A j \in DOMAIN sprites :
              /\ j < k => sprites'[j] = sprites[j]
              /\ j > k => sprites'[j + 1] = sprites[j]
        /\ sprites'[k].startTime = sprites[k].startTime
        /\ sprites'[k + 1].startTime = currentTime
        /\ sprites'[k].duration + sprites'[k + 1].duration = sprites[k].duration
        /\ selectedSpriteId' = sprites'[k].id

\* the step took the selected sprite out, moved every later sprite up by its
\* duration and cleared the selection
StepDeletedInFull ==
    \E k \in DOMAIN sprites :
        /\ sprites[k].id = selectedSpriteId
        /\ Len(sprites') = Len(sprites) - 1
        /\ \A j \in DOMAIN sprites' :
              sprites'[j] =
                 IF j < k
                 THEN sprites[j]
                 ELSE [sprites[j + 1] EXCEPT
                          !.startTime = @ - sprites[k].duration]
        /\ selectedSpriteId' = Null

\* a playback tick, a frame render or a step of the export ran
StepObserves ==
    \/ currentTime' # currentTime
    \/ renders' # renders
    \/ canvas' # canvas
    \/ export' # export

\* C7: a step that changes the sprites is an append, a split done in full or
\* a delete done in full; a split or delete that leaves the sprites alone
\* leaves the selection alone too; and every tick, render and export step
\* starts from a timeline no edit is half way through.
C7_EditsAtomic ==
    [][/\ sprites' # sprites =>
             (StepAppended \/ StepSplitInFull \/ StepDeletedInFull)
       /\ ((splitClip \/ DeleteStep) /\ sprites' = sprites) =>
             (selectedSpriteId' = selectedSpriteId /\ placeholder' = placeholder)
       /\ StepObserves => WholeTimeline]_vars

\* an export waits for the compositor to take the second part of a split
\* while a tick render is in flight, and the first part, which it took as
\* a whole sprite, has been deleted since
C7_Witness ==
    /\ export.pc = "add"
    /\ Len(export.registered) = 1
    /\ Len(sprites) = 1
    /\ sprites[1].sprite.time.offset > 0
    /\ export.registered[1].time.offset = 0
    /\ export.pending.time = [offset |-> sprites[1].sprite.time.offset,
                              duration |-> sprites[1].duration]
    /\ TickRendersInFlight = 1

\* the step registered one more handle with the compositor
StepRegisters == Len(export'.registered) = Len(export.registered) + 1

\* the handle h carries the timing of the timeline sprite s
HandleTimedAs(h, s) ==
    h.time = [offset |-> s.sprite.time.offset, duration |-> s.duration]

\* C11: registration k is made for timeline sprite k, and when the loop over
\* the sprites is over the compositor holds one handle per timeline sprite.
C11_RegisteredInTimelineOrder ==
    [][/\ StepRegisters =>
             LET k == Len(export'.registered)
             IN /\ k \in DOMAIN sprites
                /\ HandleTimedAs(export'.registered[k], sprites[k])
       /\ (export.pc # "read" /\ export'.pc = "read") =>
             Len(export'.registered) = Len(sprites)]_vars

\* a step of the playback scheduler, the settling of a frame's decode, or a
\* step of the export
SchedulerOrExportStep ==
    \/ play
    \/ FrameStep
    \/ DecodeStep
    \/ ExportStartStep
    \/ ExportCloneStep
    \/ ExportAddStep
    \/ ExportReadStep

\* C12: no playback tick, frame render or export step changes the sprite
\* sequence or any field of a sprite (startTime, duration, sourceOffset,
\* playbackRate, filters, opacity); the materials stay as they are too.
C12_TimelineUntouched ==
    [][SchedulerOrExportStep => /\ sprites' = sprites
                                /\ materials' = materials]_vars

\* a sped-up, filtered, half-transparent sprite has been played past its
\* first frame and registered for export through a cloned handle
C12_Witness ==
    /\ export.pc = "read"
    /\ Len(export.registered) = 1
    /\ export.registered[1].intercepted
    /\ currentTime > 0
    /\ Len(sprites) = 1
    /\ sprites[1].playbackRate = 2
    /\ sprites[1].sprite.time.playbackRate = 2
    /\ sprites[1].opacity = 50
    /\ hasActiveFilters(sprites[1].filters)

\* a step of the export that fails: the clone of the handle or the filter
\* setup on it, the registration, or a read of the output stream
ExportStepFails ==
    \/ ExportCloneDone(FALSE)
    \/ ExportAddDone(FALSE)
    \/ ExportRead("error")

\* the progress value p is 100%
IsComplete(p) == p.den > 0 /\ p.num = 100 * p.den

\* C13: a failing step of the export ends the run: the compositor and its
\* registrations are dropped, there is no artifact, 100% is not reported,
\* the failure is surfaced and the timeline is as it was; after it nothing
\* of that run goes on, the export state only changes when a new export is
\* started.
C13_FailureAborts ==
    [][/\ ExportStepFails =>
            /\ export'.pc = "failed"
            /\ export'.registered = <<>>
            /\ export'.pending = NoSprite
            /\ ~export'.artifact
            /\ ~IsComplete(export'.progress)
            /\ signal' = "ExportFailed"
            /\ sprites' = sprites
            /\ materials' = materials
       /\ export.pc = "failed" =>
            \/ export' = export
            \/ ExportStartStep]_vars

\* the export of a two-sprite timeline failed at its second sprite, after
\* the first was registered
C13_Witness ==
    /\ export.pc = "failed"
    /\ signal = "ExportFailed"
    /\ export.i = 2
    /\ Len(sprites) = 2

\* the step built the handle that goes to combinator.addSprite next
StepBuilds ==
    /\ export'.pending # NoSprite
    /\ export'.pending # export.pending

\* the timeline sprite that handle was built from: the one whose clone was
\* awaited, or the one the loop has just come to
BuiltFrom ==
    IF export.pc = "clone" THEN LiveSprite(export.cur) ELSE sprites[export'.i]

\* the handle h decodes through a clone, not through the clip the material
\* and the preview share
IsClone(h) == \A k \in DOMAIN materials : materials[k].clip # h.clip

\* C14: when the export builds the handle of a sprite, the handle reads a
\* clone that has the filter interception exactly if the sprite has a
\* non-default filter setting, and a handle over the shared clip never has
\* the interception.
C14_CloneIffFiltered ==
    [][StepBuilds =>
        LET h == export'.pending
        IN /\ (IsClone(h) /\ h.intercepted) <=> hasActiveFilters(BuiltFrom.filters)
           /\ ~IsClone(h) => ~h.intercepted]_vars

\* of two timeline sprites the first went to the compositor over the shared
\* clip, with no interception, and the filtered second over an intercepted
\* clone
C14_Witness ==
    /\ Len(export.registered) = 1
    /\ ~IsClone(export.registered[1])
    /\ ~export.registered[1].intercepted
    /\ export.pending # NoSprite
    /\ IsClone(export.pending)
    /\ export.pending.intercepted

\* C15: the handle the export builds for a sprite has the sprite's source
\* offset, the sprite's duration and the sprite's opacity, and it is
\* registered with the compositor as it was built.
C15_HandleConfiguredAsSprite ==
    [][/\ StepBuilds =>
            LET h == export'.pending
            IN /\ h.time.offset = BuiltFrom.sprite.time.offset
               /\ h.time.duration = BuiltFrom.duration
               /\ h.opacity = BuiltFrom.opacity
       /\ StepRegisters =>
            export'.registered[Len(export'.registered)] = export.pending]_vars

\* the second part of a split clip, half transparent, is registered with
\* its offset into the source, its own duration and its opacity
C15_Witness ==
    /\ Len(sprites) = 2
    /\ sprites[2].opacity = 50
    /\ Len(export.registered) = 2
    /\ export.registered[2].time =
            [offset |-> sprites[2].sprite.time.offset,
             duration |-> sprites[2].duration]
    /\ export.registered[2].time.offset > 0
    /\ export.registered[2].opacity = 50

\* the progress value p is a percentage: a number from 0 to 100 (a zero
\* denominator is the NaN or Infinity of a division by a timeline length 0)
ProgressBounded(p) == p.den > 0 /\ 0 <= p.num /\ p.num <= 100 * p.den

\* p <= q for two progress values that are numbers
ProgressLeq(p, q) == p.num * q.den <= q.num * p.den

\* C16: within one export run every progress value reported is between 0
\* and 100 and not below the value reported before it, through the
\* registration phase and the chunk phase.
C16_ProgressMonotonic ==
    [][(export'.progress # export.progress /\ ~ExportStartStep) =>
            /\ ProgressBounded(export'.progress)
            /\ ProgressLeq(export.progress, export'.progress)]_vars

\* the progress value p is above 99%, Infinity included
Above99(p) ==
    \/ p.den > 0 /\ p.num > 99 * p.den
    \/ p.den = 0 /\ p.num > 0

\* C17: a progress value above 99% is only reported by the step in which
\* the output stream has signalled completion, and that step reports 100%
\* and leaves the final artifact.
C17_CompleteOnlyAtEnd ==
    [][/\ (export'.progress # export.progress /\ Above99(export'.progress)) =>
            (export.pc = "read" /\ export'.pc = "done")
       /\ (export.pc = "read" /\ export'.pc = "done") =>
            /\ IsComplete(export'.progress)
            /\ export'.artifact]_vars

\* the decode call of a playback tick fails
TickDecodeFails ==
    \E r \in BagToSet(renders) :
        /\ r.kind = "tick"
        /\ DecodeComplete(r, FALSE, FALSE, 0)

\* C18: when the decode call of a tick fails while the timeline plays,
\* playback stops: nothing is playing and no tick is scheduled after that
\* step, the failure is reported and the timeline is as it was.
C18_DecodeFailureStops ==
    [][(isPlaying /\ TickDecodeFails) =>
            /\ ~isPlaying'
            /\ rafQueue' = {}
            /\ signal' = "RenderError"
            /\ sprites' = sprites]_vars

\* a tick of the running playback loop brings the virtual time to the total
\* duration or past it
TickReachesEnd ==
    /\ isPlaying
    /\ \E id \in rafQueue, delta \in FrameDeltas :
          /\ AnimationFrame(id, delta)
          /\ LET a == FindActive(sprites, currentTime)
                 rate == IF a = 0 THEN 1 ELSE sprites[a].playbackRate
             IN currentTime + delta * rate >= getTotalDuration(sprites)

NewTickRenders ==
    {r \in BagToSet(renders') :
        /\ r.kind = "tick"
        /\ ~r.stale
        /\ CopiesIn(r, renders') > CopiesIn(r, renders)}

\* C20: the time a rendered tick asks the decoder for is the source offset
\* of the sprite active at the virtual time plus the time elapsed since the
\* start of that sprite multiplied by the sprite's playback rate.
C20_SourceTimeOfTick ==
    [][\A r \in NewTickRenders :
          \E i \in DOMAIN sprites :
              /\ sprites[i].startTime <= currentTime'
              /\ currentTime' < sprites[i].startTime + sprites[i].duration
              /\ r.at = sprites[i].sprite.time.offset
                          + (currentTime' - sprites[i].startTime)
                                * sprites[i].playbackRate]_vars

\* a tick is decoding inside the second part of a split clip played at
\* double speed: the source time is neither the virtual time nor the
\* source time of normal speed
C20_Witness ==
    \E r \in BagToSet(renders), i \in DOMAIN sprites :
        /\ r.kind = "tick"
        /\ ~r.stale
        /\ sprites[i].startTime < currentTime
        /\ currentTime < sprites[i].startTime + sprites[i].duration
        /\ sprites[i].sprite.time.offset > 0
        /\ sprites[i].playbackRate = 2
        /\ r.at = sprites[i].sprite.time.offset
                    + (currentTime - sprites[i].startTime) * 2

\* the step appended a sprite of the material m: it is the last sprite, it
\* starts at the total duration the timeline had, it reads the source from
\* its beginning for the whole duration of the material, and the sprites
\* that were there are as they were
AppendedFrom(m) ==
    LET n == Len(sprites')
    IN /\ n = Len(sprites) + 1
       /\ sprites'[n].materialId = m.id
       /\ sprites'[n].startTime = getTotalDuration(sprites)
       /\ sprites'[n].sprite.time.offset = 0
       /\ sprites'[n].duration = m.duration
       /\ sprites'[n].sprite.time.duration = m.duration
       /\ SubSeq(sprites', 1, n - 1) = sprites

\* C21: append(material) puts the new sprite at the total duration as it
\* was before the call, with source offset 0 and the duration of the
\* material, and changes no sprite that was there; so does the append a
\* first upload makes by itself.
C21_AppendPlacesAtEnd ==
    [][/\ \A k \in DOMAIN materials :
             AddMaterialToTimeline(k) => AppendedFrom(materials[k])
       /\ (LoadStep /\ sprites' # sprites) =>
             AppendedFrom(materials'[Len(materials')])]_vars

\* a second sprite was appended behind a first: it starts where the first
\* ends and reads its source from 0
C21_Witness ==
    /\ Len(sprites) = 2
    /\ sprites[1].startTime = 0
    /\ sprites[1].sprite.time.offset = 0
    /\ sprites[2].startTime = sprites[1].duration
    /\ sprites[2].startTime > 0
    /\ sprites[2].sprite.time.offset = 0
    /\ sprites[2].duration = sprites[1].duration

\* the durations of the sprites sp[1..n] added up
RECURSIVE SumDurations(_, _)
SumDurations(sp, n) ==
    IF n = 0 THEN 0 ELSE SumDurations(sp, n - 1) + sp[n].duration

\* C22: whatever appends, splits and deletes have run, the total duration
\* (the end of the last sprite, 0 for an empty timeline) is the sum of the
\* durations of all sprites.
C22_TotalIsSum ==
    /\ getTotalDuration(sprites) = SumDurations(sprites, Len(sprites))
    /\ Len(sprites) = 0 => getTotalDuration(sprites) = 0

\* what is left of a split clip after its first part was deleted, followed
\* by a whole clip appended behind it
C22_Witness ==
    /\ Len(sprites) = 2
    /\ sprites[1].sprite.time.offset > 0
    /\ sprites[2].sprite.time.offset = 0
    /\ sprites[1].duration < sprites[2].duration
    /\ getTotalDuration(sprites) = sprites[1].duration + sprites[2].duration

\* the sprites whose half-open interval [startTime, startTime + duration)
\* contains t
Candidates(t) ==
    {i \in DOMAIN sprites :
        /\ sprites[i].startTime <= t
        /\ t < sprites[i].startTime + sprites[i].duration}

\* the times looked up: from before the timeline to past its end
LookupTimes == (0 - 1)..(SumDurations(sprites, Len(sprites)) + 1)

\* C23: at every time at most one sprite's half-open interval contains it,
\* the lookup returns that sprite, and it returns none exactly when the
\* time is before 0 or at or past the end of the timeline (any time, when
\* the timeline is empty).
C23_ActiveLookup ==
    \A t \in LookupTimes :
        /\ Cardinality(Candidates(t)) <= 1
        /\ Candidates(t) # {} => FindActive(sprites, t) \in Candidates(t)
        /\ FindActive(sprites, t) = 0 <=>
                (t < 0 \/ t >= SumDurations(sprites, Len(sprites)))

\* two sprites: the lookup at the start of the second finds the second, one
\* time unit earlier the first, and at the end of the timeline none
C23_Witness ==
    /\ Len(sprites) = 2
    /\ FindActive(sprites, sprites[2].startTime) = 2
    /\ FindActive(sprites, sprites[2].startTime - 1) = 1
    /\ FindActive(sprites, sprites[2].startTime + sprites[2].duration) = 0

\* the OffscreenSprite objects of the timeline sp
Handles(sp) == {sp[i].sprite.obj : i \in DOMAIN sp}

\* the step is a split that went through
SplitDone == splitClip /\ Len(sprites') = Len(sprites) + 1

InheritsFrom(p, o) ==
    /\ p.filters = o.filters
    /\ p.opacity = o.opacity
    /\ p.playbackRate = o.playbackRate
    /\ p.sprite.opacity = o.opacity

\* C25: both sprites a split produces have the filters, the opacity and the
\* playback rate of the sprite that was split.
C25_SplitInherits ==
    [][SplitDone =>
        LET k == FindIndex(sprites, selectedSpriteId)
        IN /\ InheritsFrom(sprites'[k], sprites[k])
           /\ InheritsFrom(sprites'[k + 1], sprites[k])]_vars

\* a sprite at double speed, half transparent and in grayscale has just
\* been split: both parts have its settings, the first part is selected
C25_Witness ==
    /\ Len(sprites) = 2
    /\ selectedSpriteId = sprites[1].id
    /\ sprites[2].sprite.time.offset =
            sprites[1].sprite.time.offset + sprites[1].duration
    /\ \A i \in 1..2 :
          /\ sprites[i].playbackRate = 2
          /\ sprites[i].opacity = 50
          /\ sprites[i].filters.grayscale
    /\ sprites[2].sprite.time.playbackRate = 1

\* C26: setting the speed of the selected sprite to r leaves it with the
\* duration of its source span divided by r (duration * r is the span, the
\* old duration times the old rate), and the sprites behind it follow on
\* without gap.
C26_SpeedAdjustsDuration ==
    [][\A r \in Speeds :
          (setSelectedSpriteSpeed(r) /\ SelectedIndex # 0) =>
              LET k == SelectedIndex
              IN /\ sprites'[k].playbackRate = r
                 /\ sprites'[k].duration * r
                        = sprites[k].duration * sprites[k].playbackRate
                 /\ \A i \in 1..(Len(sprites') - 1) :
                       sprites'[i + 1].startTime
                           = sprites'[i].startTime + sprites'[i].duration]_vars

\* the duration of the material the sprite s was placed from
MaterialDuration(s) == materials[FindMaterial(materials, s.materialId)].duration

\* C27: the length a whole-clip sprite is exported with is the duration of
\* its source divided by its playback rate (at 2x, half of it).
C27_ExportLengthBySpeed ==
    [][(StepBuilds /\ BuiltFrom.sprite.time.offset = 0
                   /\ BuiltFrom.sprite.time.duration = MaterialDuration(BuiltFrom)) =>
            export'.pending.time.duration * BuiltFrom.playbackRate
                = MaterialDuration(BuiltFrom)]_vars

\* C30: applying a filter to the selected sprite sets the filter settings of
\* that sprite and changes nothing else of the timeline: every other sprite,
\* the other part of a split included, and every other field of the selected
\* sprite stay as they were.
C30_FilterOnlySelected ==
    [][\A f \in FilterNames :
          (applyFilterToSelectedSprite(f) /\ SelectedIndex # 0) =>
              LET k == SelectedIndex
              IN /\ Len(sprites') = Len(sprites)
                 /\ sprites'[k].filters = FilterFor(f)
                 /\ sprites'[k] = [sprites[k] EXCEPT !.filters = FilterFor(f)]
                 /\ \A i \in 1..Len(sprites) :
                       i # k => sprites'[i] = sprites[i]]_vars

\* the two parts of a split clip, the first in grayscale and the second with
\* no filter
C30_Witness ==
    /\ Len(sprites) = 2
    /\ sprites[1].clip = sprites[2].clip
    /\ sprites[2].sprite.time.offset =
            sprites[1].sprite.time.offset + sprites[1].duration
    /\ sprites[1].filters = FilterFor("grayscale")
    /\ sprites[2].filters = DefaultFilters

\* C29: the undo stack never holds more than 50 actions, and a push onto a
\* stack of 50 discards the oldest action: the 49 newer ones move down one
\* place and the pushed action is on top.
C29_StackLimit ==
    [][/\ Len(undoStack') <= 50
       /\ (PushStep /\ Len(undoStack) = 50) =>
              /\ Len(undoStack') = 50
              /\ \A i \in 1..49 : undoStack'[i] = undoStack[i + 1]
              /\ undoStack'[50].id = NextActionId
              /\ \A i \in 1..50 : undoStack'[i] # undoStack[1]]_vars

\* 52 actions were pushed: the stack holds the 50 newest, the first two are
\* gone
C29_Witness ==
    /\ Len(undoStack) = 50
    /\ undoStack[1].id = 3
    /\ undoStack[50].id = 52
    /\ redoStack = <<>>

\* a delete that took a sprite out of the timeline
DeleteDone == DeleteStep /\ Len(sprites') = Len(sprites) - 1

\* C28: a split or a delete leaves on top of the undo stack an action that
\* holds the sprite sequence before the operation and the one after it; an
\* undo puts the sequence before the operation back exactly, and the redo
\* that follows puts back the sequence after it.
C28_UndoRestoresEdit ==
    [][/\ (SplitDone \/ DeleteDone) =>
              /\ undoStack' # <<>>
              /\ undoStack'[Len(undoStack')].undoTo = sprites
              /\ undoStack'[Len(undoStack')].doTo = sprites'
       /\ (undo(TRUE) /\ undoStack # <<>>) =>
              /\ sprites' = undoStack[Len(undoStack)].undoTo
              /\ redoStack' = Append(redoStack, undoStack[Len(undoStack)])
       /\ (redo(TRUE) /\ redoStack # <<>>) =>
              sprites' = redoStack[Len(redoStack)].doTo]_vars

\* C31: an export started on a timeline without sprites tells the user that
\* there are no clips to export and does nothing else: no Combinator is
\* made, no sprite is registered and no progress is reported (the record of
\* the export stays as it was).
C31_EmptyTimelineRejected ==
    [][(ExportStartStep /\ Len(sprites) = 0) =>
            /\ signal' = "NoClipsToExport"
            /\ export' = export
            /\ export'.pc \notin {"clone", "add", "read"}]_vars

\* a clip was loaded and deleted again, and the export button was clicked
\* on the empty timeline
C31_Witness ==
    /\ materials # <<>>
    /\ sprites = <<>>
    /\ signal = "NoClipsToExport"
    /\ export = IdleExport

\* C32: the delete that takes the last sprite out of the timeline shows the
\* placeholder in the same step.
C32_EmptyShowsPlaceholder ==
    [][(DeleteStep /\ sprites # <<>> /\ sprites' = <<>>) => placeholder']_vars

\* a clip was loaded, which hid the placeholder, and its last sprite was
\* deleted: the placeholder is shown again
C32_Witness ==
    /\ materials # <<>>
    /\ sprites = <<>>
    /\ selectedSpriteId = Null
    /\ placeholder

\* the decodes of playback ticks in flight, counted with their copies
TicksInFlight ==
    BagCardinality([r \in {q \in BagToSet(renders) : q.kind = "tick"}
                        |-> CopiesIn(r, renders)])

\* C33: at most one playback tick is alive at any time, either with its
\* decode in flight or scheduled as an animation frame.
C33_OneTickChain ==
    TicksInFlight + Cardinality(rafQueue) <= 1

\* the time record the export gives the handle of the timeline sprite s
HandleTime(s) == [offset |-> s.sprite.time.offset, duration |-> s.duration]

\* The time records of the handles the compositor holds once the loop of the
\* export is through, as they follow from the state now: those registered,
\* the one of the turn under way, and one for each sprite the loop has yet
\* to read.  When exportVideo has just started it is the sprite sequence of
\* that moment.
ExportPlan ==
    [k \in 1..Len(export.registered) |-> export.registered[k].time]
        \o (IF export.pc = "add" THEN <<export.pending.time>>
            ELSE IF export.pc = "clone"
            THEN <<HandleTime(LiveSprite(export.cur))>>
            ELSE <<>>)
        \o (IF export.pc \in {"clone", "add"} /\ export.i < Len(sprites)
            THEN [k \in 1..(Len(sprites) - export.i) |->
                     HandleTime(sprites[export.i + k])]
            ELSE <<>>)

\* an edit of the timeline that changes the sprite sequence
EditStep == (splitClip \/ DeleteStep) /\ sprites' # sprites

\* C34: an edit that runs while the export is suspended at an await of its
\* loop leaves the handles the compositor ends up with as they were set out
\* when the export started: one per sprite of that sequence, in its order.
C34_ExportUsesStartSequence ==
    [][(export.pc \in {"clone", "add"} /\ EditStep) =>
            ExportPlan' = ExportPlan]_vars

\* left alone, the steps of the export carry out the plan: a turn of the
\* loop that succeeds does not change it
ExportFollowsPlan ==
    [][(export.pc \in {"clone", "add"}
            /\ (ExportCloneDone(TRUE) \/ ExportAddDone(TRUE))) =>
            ExportPlan' = ExportPlan]_vars

\* C35: the playhead is always inside the timeline: currentTime is at least
\* 0 and at most the total duration.
C35_PlayheadInTimeline ==
    /\ 0 <= currentTime
    /\ currentTime <= getTotalDuration(sprites)

\* the source time renderFrame asks the decoder for at the timeline time t
\* when the timeline is sp (NoTime where no sprite is active)
SourceTimeAt(sp, t) ==
    IF FindActive(sp, t) = 0 THEN NoTime ELSE SourceTime(sp[FindActive(sp, t)], t)

\* C36: a split changes no frame of the preview: at every time inside the
\* sprite that was split the source time rendered after the split is the
\* source time rendered before it, whatever the playback rate of the sprite.
C36_SplitKeepsPreview ==
    [][SplitDone =>
        LET o == sprites[FindIndex(sprites, selectedSpriteId)]
        IN \A t \in o.startTime..(o.startTime + o.duration - 1) :
              SourceTimeAt(sprites', t) = SourceTimeAt(sprites, t)]_vars

\* C37: at every timeline time inside a sprite the source time asked of the
\* decoder lies inside the material of that sprite, between 0 and the
\* duration of the material.
C37_SourceTimeInMaterial ==
    \A i \in DOMAIN sprites :
        \A t \in sprites[i].startTime..(sprites[i].startTime + sprites[i].duration - 1) :
            /\ 0 <= SourceTime(sprites[i], t)
            /\ SourceTime(sprites[i], t) <= MaterialDuration(sprites[i])

\* C38: the selection is empty or is the id of a sprite that is in the
\* timeline.
C38_SelectionInTimeline ==
    selectedSpriteId = Null \/ FindIndex(sprites, selectedSpriteId) # 0

\* a clip was split, one part was deleted, which emptied the selection, and
\* the part that is left was clicked
C38_Witness ==
    /\ Len(sprites) = 1
    /\ sprites[1].duration < MaterialDuration(sprites[1])
    /\ selectedSpriteId = sprites[1].id

\* C39: playback that was started and is not paused, whose ticks all find
\* the clock advanced and whose decodes all settle, comes to the end of the
\* timeline: the scheduler is no longer playing and the virtual time is the
\* total duration.
C39_PlaybackReachesEnd ==
    isPlaying ~> (~isPlaying /\ currentTime = getTotalDuration(sprites))

\* playback has run over a split clip to its end and stopped there
C39_Witness ==
    /\ Len(sprites) = 2
    /\ ~isPlaying
    /\ currentTime = getTotalDuration(sprites)
    /\ signal = "PlaybackEnded"
    /\ rafQueue = {}

\* C40: when the undo closure of the action on top of the undo stack throws,
\* undo reports the failure (it returns false) and both stacks are as they
\* were before the call; when the do closure of the action on top of the
\* redo stack throws, the same holds of redo.
C40_FailedUndoKeepsStacks ==
    [][/\ (undo(FALSE) /\ undoStack # <<>>) =>
              /\ signal' = "UndoError"
              /\ undoStack' = undoStack
              /\ redoStack' = redoStack
       /\ (redo(FALSE) /\ redoStack # <<>>) =>
              /\ signal' = "RedoError"
              /\ undoStack' = undoStack
              /\ redoStack' = redoStack]_vars

\* an undo whose closure threw has just returned: the action it tried is on
\* top of the undo stack, above another, and an action undone before is
\* still on the redo stack
C40_Witness ==
    /\ signal = "UndoError"
    /\ Len(undoStack) = 2
    /\ undoStack[2].id = 2
    /\ Len(redoStack) = 1

====
